---- MODULE Spec2Model ----
(***************************************************************************)
(* PcanBus (can/interfaces/pcan/pcan.py): the adapter that exposes a PCAN  *)
(* channel as a bus object.  The model holds the adapter's fields, the     *)
(* state of the device behind the PCANBasic capability object (channel     *)
(* initialised, listen-only flag, receive queue, registered receive event) *)
(* and the position of a running _recv_internal call.                      *)
(*                                                                         *)
(* Time is counted in ticks; one millisecond is TicksPerMs ticks, so that  *)
(* a timeout given in seconds need not be a whole number of milliseconds.  *)
(* Code between two blocking calls takes no time; time passes only inside  *)
(* WaitForSingleObject and time.sleep (action Tick).  The clock `now` is   *)
(* time.perf_counter() with its origin at the start of the running call.   *)
(*                                                                         *)
(* Spec is the adapter with its device; FairSpec is the receive path with  *)
(* the fairness of its one thread; ConvSpec applies the adapter's          *)
(* conversions (classic bit rate, error text, frame encoding and decoding) *)
(* to one input each.                                                      *)
(***************************************************************************)
EXTENDS Integers, Sequences, FiniteSets, TLC

VARIABLES
    HAS_EVENTS,      \* process-wide: the event primitive was importable
    adapter,         \* "none" (no live PcanBus) or "open"
    fd,              \* self.fd
    _state,          \* self._state
    devInit,         \* device: the channel is initialised
    devListenOnly,   \* device: PCAN_LISTEN_ONLY is on
    evRegistered,    \* device: PCAN_RECEIVE_EVENT holds self._recv_event
    evSignalled,     \* self._recv_event is in the signalled state
    rxq,             \* device: receive queue (wire records, oldest first)
    arrived,         \* number of frames the bus has put into rxq so far
    pc,              \* _recv_internal: "idle", "loop", "wait" or "sleep"
    timeout,         \* _recv_internal: its argument, None or <<ticks>>
    timeout_ms,      \* _recv_internal: local of the event strategy
    end_time,        \* _recv_internal: local of the poll strategy
    result,          \* _recv_internal: local, None or <<status, msg>>
    now,             \* time.perf_counter(), ticks since the call started
    left,            \* ticks left in the running wait/sleep, None = forever
    readLog,         \* frames the device handed out with status OK
    delivered,       \* frames _recv_internal returned to its caller
    lastOp,          \* the operation last called: arguments, device calls, outcome
    lastListenOnly,  \* value of the last PCAN_LISTEN_ONLY SetValue issued
    lastRequested,   \* state last requested through open or the state setter
    conv             \* a conversion applied on its own: its input and its output

vars == <<HAS_EVENTS, adapter, fd, _state, devInit, devListenOnly, evRegistered,
          evSignalled, rxq, arrived, pc, timeout, timeout_ms, end_time, result,
          now, left, readLog, delivered, lastOp, lastListenOnly, lastRequested,
          conv>>

(* the adapter, the device and the running call: all but conv *)
busVars == <<HAS_EVENTS, adapter, fd, _state, devInit, devListenOnly, evRegistered,
             evSignalled, rxq, arrived, pc, timeout, timeout_ms, end_time, result,
             now, left, readLog, delivered, lastOp, lastListenOnly, lastRequested>>

adapterVars == <<adapter, fd, _state>>
deviceVars == <<devInit, devListenOnly, evRegistered, evSignalled, rxq, arrived>>
callVars == <<pc, timeout, timeout_ms, end_time, result, left>>
recvVars == <<pc, timeout, timeout_ms, end_time, result, now, left>>
histVars == <<readLog, delivered>>
stateVars == <<lastListenOnly, lastRequested>>

-----------------------------------------------------------------------------
(* Bounds of the model *)

TicksPerMs == 2
MaxTimeout == 2
MaxTime == 6
SleepJitter == 1
MaxFrames == 2
MaxDlc == 1

-----------------------------------------------------------------------------
(* Values *)

None == <<>>

PCAN_ERROR_OK == 0
PCAN_ERROR_BUSLIGHT == 4
PCAN_ERROR_BUSHEAVY == 8
PCAN_ERROR_BUSOFF == 16
PCAN_ERROR_QRCVEMPTY == 32

(* INFINITE is 0xFFFFFFFF, written here as the 32-bit two's complement value *)
(* it has; no timeout in milliseconds is negative.                         *)
INFINITE == -1

BusStates == {"ACTIVE", "PASSIVE", "ERROR"}

RECURSIVE BitAnd(_, _)
BitAnd(a, b) ==
    IF a = 0 \/ b = 0 THEN 0
    ELSE (a % 2) * (b % 2) + 2 * BitAnd(a \div 2, b \div 2)

Min(a, b) == IF a <= b THEN a ELSE b

BitOr(a, b) == a + b - BitAnd(a, b)

PCAN_MESSAGE_STANDARD == 0
PCAN_MESSAGE_RTR == 1
PCAN_MESSAGE_EXTENDED == 2
PCAN_MESSAGE_FD == 4
PCAN_MESSAGE_BRS == 8
PCAN_MESSAGE_ESI == 16
PCAN_MESSAGE_ERRFRAME == 64

(* can.util.len2dlc and its table of the byte counts of the 16 DLC codes. *)
CAN_FD_DLC == <<0, 1, 2, 3, 4, 5, 6, 7, 8, 12, 16, 20, 24, 32, 48, 64>>

len2dlc(length) ==
    IF length <= 8 THEN length
    ELSE IF \E i \in 1..Len(CAN_FD_DLC) : CAN_FD_DLC[i] >= length
    THEN (CHOOSE i \in 1..Len(CAN_FD_DLC) :
             /\ CAN_FD_DLC[i] >= length
             /\ \A j \in 1..(i - 1) : CAN_FD_DLC[j] < length) - 1
    ELSE 15

(* can.util.dlc2len *)
dlc2len(dlc) == IF dlc <= 15 THEN CAN_FD_DLC[dlc + 1] ELSE 64

(* Results the device may give to Initialize, SetValue, Write and Reset. *)
DeviceResults == {PCAN_ERROR_OK, PCAN_ERROR_BUSOFF}

(* Statuses the device may give to Read/ReadFD with queue q: success only  *)
(* with a frame to hand out, queue-empty only with none, a bus condition   *)
(* at any time (alone or combined with other bits).                        *)
ReadStatuses(q) ==
    (IF q = <<>> THEN {PCAN_ERROR_QRCVEMPTY} ELSE {PCAN_ERROR_OK})
    \cup {PCAN_ERROR_BUSLIGHT, PCAN_ERROR_BUSHEAVY, PCAN_ERROR_BUSOFF,
          PCAN_ERROR_QRCVEMPTY + PCAN_ERROR_BUSHEAVY}

(* A call made to the device: the function, for SetValue the parameter and *)
(* its value, for Write/WriteFD the record written, and the status the     *)
(* device returned where the code looks at it.                             *)
Call(fn, param, value, rec, status) ==
    [fn |-> fn, param |-> param, value |-> value, rec |-> rec, status |-> status]

(* What an operation gave back: msg and more are the tuple of receive,     *)
(* status the code of status(), ok the boolean of status_is_ok and reset.  *)
NoValue == [msg |-> None, more |-> FALSE, status |-> 0, ok |-> FALSE]

(* kind is "return" or the exception raised; via names the return          *)
(* statement of receive that was taken.                                    *)
Outcome(kind, via, value) == [kind |-> kind, via |-> via, value |-> value]

(* The arguments of the operations, each operation setting its own. *)
NoMsg ==
    [arbitration_id |-> 0, is_extended_id |-> FALSE, is_remote_frame |-> FALSE,
     is_error_frame |-> FALSE, is_fd |-> FALSE, bitrate_switch |-> FALSE,
     error_state_indicator |-> FALSE, dlc |-> 0, data |-> <<>>]

NoArgs ==
    [state |-> "", fd |-> FALSE, timing |-> FALSE, data_timing |-> FALSE,
     legacy |-> FALSE, timeout |-> None, msg |-> NoMsg, flash |-> FALSE]

Op(name, arg, calls, outcome) ==
    [op |-> name, arg |-> arg, prevState |-> _state, calls |-> calls,
     outcome |-> outcome]

NoOp == [op |-> "none", arg |-> NoArgs, prevState |-> "unset", calls |-> <<>>,
         outcome |-> Outcome("return", "", NoValue)]

(* No conversion applied yet. *)
NoConv == [fn |-> "none", arg |-> None, out |-> None]

-----------------------------------------------------------------------------
(* Device side of SetValue(handle, PCAN_LISTEN_ONLY, v): the flag changes  *)
(* only when the call succeeds.                                            *)
DevSetListenOnly(flag, v, res) ==
    IF res = PCAN_ERROR_OK THEN (v = "PCAN_PARAMETER_ON") ELSE flag

(* state.setter: the parameter pushed for new_state, None when no call is  *)
(* made.                                                                   *)
ListenOnlyValueSwapped(new_state) ==
    IF new_state = "ACTIVE" THEN <<"PCAN_PARAMETER_ON">>
    ELSE IF new_state = "PASSIVE" THEN <<"PCAN_PARAMETER_OFF">>
    ELSE None

ListenOnlyValue(new_state) ==
    IF new_state = "ACTIVE" THEN <<"PCAN_PARAMETER_OFF">>
    ELSE IF new_state = "PASSIVE" THEN <<"PCAN_PARAMETER_ON">>
    ELSE None

(* The device calls the state setter makes. *)
StateSetterCalls(new_state) ==
    IF ListenOnlyValue(new_state) = None THEN <<>>
    ELSE <<Call("SetValue", "PCAN_LISTEN_ONLY", ListenOnlyValue(new_state)[1], None, 0)>>

StateSetterDevFlag(new_state, res) ==
    IF ListenOnlyValue(new_state) = None THEN devListenOnly
    ELSE DevSetListenOnly(devListenOnly, ListenOnlyValue(new_state)[1], res)

StateSetterLast(new_state) ==
    IF ListenOnlyValue(new_state) = None THEN lastListenOnly
    ELSE ListenOnlyValue(new_state)

-----------------------------------------------------------------------------
Init ==
    /\ HAS_EVENTS \in BOOLEAN
    /\ adapter = "none"
    /\ fd = FALSE
    /\ _state = "unset"
    /\ devInit = FALSE
    /\ devListenOnly = FALSE
    /\ evRegistered = FALSE
    /\ evSignalled = FALSE
    /\ rxq = <<>>
    /\ arrived = 0
    /\ pc = "idle"
    /\ timeout = None
    /\ timeout_ms = None
    /\ end_time = None
    /\ result = None
    /\ now = 0
    /\ left = None
    /\ readLog = <<>>
    /\ delivered = <<>>
    /\ lastOp = NoOp
    /\ lastListenOnly = None
    /\ lastRequested = "unset"
    /\ conv = NoConv

(* state.setter on an open adapter *)
SetState(new_state, res) ==
    /\ adapter = "open"
    /\ pc = "idle"
    /\ _state' = new_state
    /\ devListenOnly' = StateSetterDevFlag(new_state, res)
    /\ lastListenOnly' = StateSetterLast(new_state)
    /\ lastRequested' = new_state
    /\ lastOp' = Op("set_state", [NoArgs EXCEPT !.state = new_state],
                    StateSetterCalls(new_state), Outcome("return", "", NoValue))
    /\ now' = 0
    /\ UNCHANGED <<HAS_EVENTS, adapter, fd, devInit, evRegistered, evSignalled,
                   rxq, arrived>>
    /\ UNCHANGED conv
    /\ UNCHANGED callVars
    /\ UNCHANGED histVars

(* shutdown(): Uninitialize releases the channel, its queue and its event. *)
(* The histories are those of one adapter and start again with the next.   *)
Shutdown ==
    /\ adapter = "open"
    /\ pc = "idle"
    /\ adapter' = "none"
    /\ fd' = FALSE
    /\ _state' = "unset"
    /\ devInit' = FALSE
    /\ evRegistered' = FALSE
    /\ evSignalled' = FALSE
    /\ rxq' = <<>>
    /\ arrived' = 0
    /\ readLog' = <<>>
    /\ delivered' = <<>>
    /\ now' = 0
    /\ lastRequested' = "unset"
    /\ lastOp' = Op("shutdown", NoArgs, <<Call("Uninitialize", "", "", None, 0)>>,
                    Outcome("return", "", NoValue))
    /\ UNCHANGED <<HAS_EVENTS, devListenOnly, lastListenOnly>>
    /\ UNCHANGED conv
    /\ UNCHANGED callVars

-----------------------------------------------------------------------------
(* __init__ *)

(* FD branch: where the parameters of the bit rate string come from; None  *)
(* is the branch that raises ArgumentError.                                *)
FdParamsFallback(timing, data_timing, legacy) ==
    IF timing /\ data_timing THEN <<"timing">>
    ELSE IF legacy THEN <<"kwargs">>
    ELSE <<"default">>

FdParams(timing, data_timing, legacy) ==
    IF timing /\ data_timing THEN <<"timing">>
    ELSE IF legacy THEN <<"kwargs">>
    ELSE None

(* Classic branch: where pcan_bitrate comes from. *)
ClassicBitrate(timing) ==
    IF timing THEN "timing" ELSE "bitrate"

InitCall(fdArg, timing, data_timing, legacy, res) ==
    IF fdArg
    THEN Call("InitializeFD", "fd_bitrate", FdParams(timing, data_timing, legacy)[1],
              None, res)
    ELSE Call("Initialize", "pcan_bitrate", ClassicBitrate(timing), None, res)

EventCall(res) == Call("SetValue", "PCAN_RECEIVE_EVENT", "_recv_event", None, res)

(* `if result != PCAN_ERROR_OK: raise PcanError(...)` after the             *)
(* initialisation call and after the registration of the event.            *)
InitFailedQueueEmptyOnly(res) == res = PCAN_ERROR_QRCVEMPTY

InitFailed(res) == res # PCAN_ERROR_OK

(* `if HAS_EVENTS:` the test that decides whether the constructor creates  *)
(* the event and registers it; the fd argument has no part in it.          *)
RegistersEventClassicOnly(fdArg) == HAS_EVENTS /\ ~fdArg

RegistersEvent(fdArg) == HAS_EVENTS

OpenArgs(state, fdArg, timing, data_timing, legacy) ==
    [NoArgs EXCEPT !.state = state, !.fd = fdArg, !.timing = timing,
                   !.data_timing = data_timing, !.legacy = legacy]

(* The constructor raised: no adapter exists, the device keeps what the    *)
(* calls made so far did to it.                                            *)
OpenFailed(args, calls, kind) ==
    /\ lastOp' = Op("open", args, calls, Outcome(kind, "", NoValue))
    /\ UNCHANGED <<adapter, fd, _state, lastRequested>>

(* The constructor returned: the adapter is live. *)
Opened(args, calls) ==
    /\ adapter' = "open"
    /\ fd' = args.fd
    /\ _state' = args.state
    /\ lastRequested' = args.state
    /\ lastOp' = Op("open", args, calls, Outcome("return", "", NoValue))

Open(state, fdArg, timing, data_timing, legacy) ==
    LET args == OpenArgs(state, fdArg, timing, data_timing, legacy)
        setCalls == StateSetterCalls(state)
        initCalls(res) ==
            setCalls \o <<InitCall(fdArg, timing, data_timing, legacy, res)>>
    IN
    /\ adapter = "none"
    /\ pc = "idle"
    /\ UNCHANGED <<HAS_EVENTS, rxq, arrived>>
    /\ UNCHANGED conv
    /\ UNCHANGED recvVars
    /\ UNCHANGED histVars
    /\ IF state \notin {"ACTIVE", "PASSIVE"}
       THEN /\ OpenFailed(args, <<>>, "ArgumentError")
            /\ UNCHANGED <<devInit, devListenOnly, evRegistered, evSignalled,
                           lastListenOnly>>
       ELSE \E loRes \in DeviceResults :
       /\ devListenOnly' = StateSetterDevFlag(state, loRes)
       /\ lastListenOnly' = StateSetterLast(state)
       /\ IF fdArg /\ FdParams(timing, data_timing, legacy) = None
          THEN /\ OpenFailed(args, setCalls, "ArgumentError")
               /\ UNCHANGED <<devInit, evRegistered, evSignalled>>
          ELSE \E initRes \in DeviceResults :
          IF InitFailed(initRes)
          THEN /\ OpenFailed(args, initCalls(initRes), "PcanError")
               /\ UNCHANGED <<devInit, evRegistered, evSignalled>>
          ELSE
          /\ devInit' = (devInit \/ initRes = PCAN_ERROR_OK)
          /\ IF RegistersEvent(fdArg)
             THEN \E evRes \in DeviceResults :
                  IF InitFailed(evRes)
                  THEN /\ OpenFailed(args, initCalls(initRes) \o <<EventCall(evRes)>>,
                                     "PcanError")
                       /\ UNCHANGED <<evRegistered, evSignalled>>
                  ELSE /\ evRegistered' = TRUE
                       /\ evSignalled' = FALSE
                       /\ Opened(args, initCalls(initRes) \o <<EventCall(evRes)>>)
             ELSE /\ UNCHANGED <<evRegistered, evSignalled>>
                  /\ Opened(args, initCalls(initRes))

-----------------------------------------------------------------------------
(* The bus and the device *)

(* A frame reaches the receive queue; the device signals the registered    *)
(* event.                                                                  *)
Arrive ==
    /\ devInit
    /\ arrived < MaxFrames
    /\ arrived' = arrived + 1
    /\ rxq' = Append(rxq, [ID |-> arrived + 1])
    /\ evSignalled' = (evSignalled \/ evRegistered)
    /\ UNCHANGED <<HAS_EVENTS, devInit, devListenOnly, evRegistered, lastOp>>
    /\ UNCHANGED conv
    /\ UNCHANGED adapterVars
    /\ UNCHANGED recvVars
    /\ UNCHANGED histVars
    /\ UNCHANGED stateVars

(* The device signals the registered event with no frame queued (the       *)
(* capability interface does not tie a signal to a readable frame).        *)
DeviceSetEvent ==
    /\ evRegistered
    /\ ~evSignalled
    /\ pc = "wait"
    /\ evSignalled' = TRUE
    /\ UNCHANGED <<HAS_EVENTS, devInit, devListenOnly, evRegistered, rxq, arrived,
                   lastOp>>
    /\ UNCHANGED conv
    /\ UNCHANGED adapterVars
    /\ UNCHANGED recvVars
    /\ UNCHANGED histVars
    /\ UNCHANGED stateVars

(* Time passes while _recv_internal is blocked: a wait ends as soon as the *)
(* event is signalled or its timeout is used up, a sleep when it is used   *)
(* up.                                                                     *)
Tick ==
    /\ pc \in {"wait", "sleep"}
    /\ ~(pc = "wait" /\ evSignalled)
    /\ left # <<0>>
    /\ now' = Min(now + 1, MaxTime)
    /\ left' = IF left = None THEN None ELSE <<left[1] - 1>>
    /\ UNCHANGED <<pc, timeout, timeout_ms, end_time, result, lastOp, HAS_EVENTS>>
    /\ UNCHANGED conv
    /\ UNCHANGED adapterVars
    /\ UNCHANGED deviceVars
    /\ UNCHANGED histVars
    /\ UNCHANGED stateVars

-----------------------------------------------------------------------------
(* _recv_internal *)

(* int(timeout * 1000): a timeout of t ticks is t / TicksPerMs             *)
(* milliseconds, and int() drops the fraction.                             *)
TimeoutMs(t) == IF t # None THEN t[1] \div TicksPerMs ELSE INFINITE

(* The poll strategy's test `timeout is not None and perf_counter() >= end_time`. *)
DeadlinePassedEarly(t, n, e) == t # None /\ n + TicksPerMs >= e[1]

DeadlinePassed(t, n, e) == t # None /\ n >= e[1]

(* The if/elif chain on result[0]. *)
ReadBranchRaiseAll(st) ==
    IF st = PCAN_ERROR_QRCVEMPTY THEN "empty"
    ELSE IF st # PCAN_ERROR_OK THEN "raise"
    ELSE "ok"

ReadBranch(st) ==
    IF st = PCAN_ERROR_QRCVEMPTY THEN "empty"
    ELSE IF BitAnd(st, PCAN_ERROR_BUSLIGHT + PCAN_ERROR_BUSHEAVY) # 0 THEN "buswarn"
    ELSE IF st # PCAN_ERROR_OK THEN "raise"
    ELSE "ok"

(* The record Read (TPCANMsg) or ReadFD (TPCANMsgFD) hands out for a frame *)
(* of the bus: a standard data frame with no payload and the frame's id.   *)
DeviceRecord(isFd, frame) ==
    IF isFd
    THEN [ID |-> frame.ID, DLC |-> 0, MSGTYPE |-> PCAN_MESSAGE_STANDARD,
          DATA |-> [i \in 1..64 |-> 0]]
    ELSE [ID |-> frame.ID, LEN |-> 0, MSGTYPE |-> PCAN_MESSAGE_STANDARD,
          DATA |-> [i \in 1..8 |-> 0]]

(* `(theMsg.MSGTYPE & FLAG.value) == FLAG.value` *)
HasFlag(msgtype, flag) == BitAnd(msgtype, flag) = flag

(* The Message built from the wire record (its timestamp left out): the    *)
(* length is dlc2len(DLC) in FD mode and LEN otherwise, the data the       *)
(* slice DATA[:dlc] of the record's buffer.                                *)
DecodeLenAsDlc(isFd, theMsg) ==
    LET dlc == IF isFd THEN theMsg.DLC ELSE theMsg.LEN
    IN [arbitration_id |-> theMsg.ID,
        is_extended_id |-> HasFlag(theMsg.MSGTYPE, PCAN_MESSAGE_EXTENDED),
        is_remote_frame |-> HasFlag(theMsg.MSGTYPE, PCAN_MESSAGE_RTR),
        is_error_frame |-> HasFlag(theMsg.MSGTYPE, PCAN_MESSAGE_ERRFRAME),
        is_fd |-> HasFlag(theMsg.MSGTYPE, PCAN_MESSAGE_FD),
        bitrate_switch |-> HasFlag(theMsg.MSGTYPE, PCAN_MESSAGE_BRS),
        error_state_indicator |-> HasFlag(theMsg.MSGTYPE, PCAN_MESSAGE_ESI),
        dlc |-> dlc,
        data |-> SubSeq(theMsg.DATA, 1, Min(dlc, Len(theMsg.DATA)))]

Decode(isFd, theMsg) ==
    LET dlc == IF isFd THEN dlc2len(theMsg.DLC) ELSE theMsg.LEN
    IN [arbitration_id |-> theMsg.ID,
        is_extended_id |-> HasFlag(theMsg.MSGTYPE, PCAN_MESSAGE_EXTENDED),
        is_remote_frame |-> HasFlag(theMsg.MSGTYPE, PCAN_MESSAGE_RTR),
        is_error_frame |-> HasFlag(theMsg.MSGTYPE, PCAN_MESSAGE_ERRFRAME),
        is_fd |-> HasFlag(theMsg.MSGTYPE, PCAN_MESSAGE_FD),
        bitrate_switch |-> HasFlag(theMsg.MSGTYPE, PCAN_MESSAGE_BRS),
        error_state_indicator |-> HasFlag(theMsg.MSGTYPE, PCAN_MESSAGE_ESI),
        dlc |-> dlc,
        data |-> SubSeq(theMsg.DATA, 1, Min(dlc, Len(theMsg.DATA)))]

(* The tuple every return statement of _recv_internal builds. *)
RecvTupleMore(msg) == [NoValue EXCEPT !.msg = msg, !.more = TRUE]

RecvTuple(msg) == [NoValue EXCEPT !.msg = msg, !.more = FALSE]

RecvCall(t) ==
    /\ adapter = "open"
    /\ pc = "idle"
    /\ timeout' = t
    /\ now' = 0
    /\ timeout_ms' = IF HAS_EVENTS THEN <<TimeoutMs(t)>> ELSE None
    /\ end_time' = IF ~HAS_EVENTS /\ t # None THEN <<now' + t[1]>> ELSE None
    /\ result' = None
    /\ left' = None
    /\ pc' = "loop"
    /\ lastOp' = Op("receive", [NoArgs EXCEPT !.timeout = t], <<>>,
                    Outcome("pending", "", NoValue))
    /\ UNCHANGED HAS_EVENTS
    /\ UNCHANGED conv
    /\ UNCHANGED adapterVars
    /\ UNCHANGED deviceVars
    /\ UNCHANGED histVars
    /\ UNCHANGED stateVars

(* A return or raise of _recv_internal: its locals are gone. *)
RecvEnd(call, kind, via, value) ==
    /\ pc' = "idle"
    /\ timeout' = None
    /\ timeout_ms' = None
    /\ end_time' = None
    /\ result' = None
    /\ left' = None
    /\ lastOp' = [lastOp EXCEPT !.calls = call, !.outcome = Outcome(kind, via, value)]

(* One pass of the while loop up to its blocking call: the device read and *)
(* the branch on its status.  d is how long the sleep will take.           *)
RecvRead(st, d) ==
    LET branch == ReadBranch(st)
        call == <<Call(IF fd THEN "ReadFD" ELSE "Read", "", "", None, st)>>
    IN
    /\ pc = "loop"
    /\ st \in ReadStatuses(rxq)
    /\ rxq' = IF st = PCAN_ERROR_OK THEN Tail(rxq) ELSE rxq
    /\ readLog' = IF st = PCAN_ERROR_OK THEN Append(readLog, Head(rxq)) ELSE readLog
    /\ UNCHANGED <<HAS_EVENTS, devInit, devListenOnly, evRegistered, evSignalled,
                   arrived, now>>
    /\ UNCHANGED conv
    /\ UNCHANGED adapterVars
    /\ UNCHANGED stateVars
    /\ IF branch = "empty"
       THEN /\ UNCHANGED delivered
            /\ IF HAS_EVENTS
               THEN /\ result' = None
                    /\ pc' = "wait"
                    /\ left' = IF timeout_ms[1] = INFINITE THEN None
                               ELSE <<timeout_ms[1] * TicksPerMs>>
                    /\ lastOp' = [lastOp EXCEPT !.calls = call]
                    /\ UNCHANGED <<timeout, timeout_ms, end_time>>
               ELSE IF DeadlinePassed(timeout, now, end_time)
               THEN RecvEnd(call, "return", "timeout", RecvTuple(None))
               ELSE /\ result' = None
                    /\ pc' = "sleep"
                    /\ left' = <<d>>
                    /\ lastOp' = [lastOp EXCEPT !.calls = call]
                    /\ UNCHANGED <<timeout, timeout_ms, end_time>>
       ELSE IF branch = "buswarn"
       THEN /\ RecvEnd(call, "return", "buswarn", RecvTuple(None))
            /\ UNCHANGED delivered
       ELSE IF branch = "raise"
       THEN /\ RecvEnd(call, "PcanError", "", NoValue)
            /\ UNCHANGED delivered
       ELSE /\ RecvEnd(call, "return", "frame",
                        RecvTuple(<<Decode(fd, DeviceRecord(fd, Head(rxq)))>>))
            /\ delivered' = Append(delivered, Decode(fd, DeviceRecord(fd, Head(rxq))))

(* WaitForSingleObject returns: WAIT_OBJECT_0 when the auto-reset event is *)
(* signalled (which resets it), WAIT_TIMEOUT when the timeout is used up.  *)
WaitReturn ==
    /\ pc = "wait"
    /\ evSignalled \/ left = <<0>>
    /\ evSignalled' = FALSE
    /\ IF evSignalled
       THEN /\ pc' = "loop"
            /\ left' = None
            /\ UNCHANGED <<timeout, timeout_ms, end_time, result, lastOp>>
       ELSE RecvEnd(lastOp.calls, "return", "timeout", RecvTuple(None))
    /\ UNCHANGED <<HAS_EVENTS, devInit, devListenOnly, evRegistered, rxq, arrived, now>>
    /\ UNCHANGED conv
    /\ UNCHANGED adapterVars
    /\ UNCHANGED histVars
    /\ UNCHANGED stateVars

(* time.sleep(0.001) returns. *)
SleepReturn ==
    /\ pc = "sleep"
    /\ left = <<0>>
    /\ pc' = "loop"
    /\ left' = None
    /\ UNCHANGED <<HAS_EVENTS, timeout, timeout_ms, end_time, result, now, lastOp>>
    /\ UNCHANGED conv
    /\ UNCHANGED adapterVars
    /\ UNCHANGED deviceVars
    /\ UNCHANGED histVars
    /\ UNCHANGED stateVars

-----------------------------------------------------------------------------
(* send *)

(* The messages handed to send: a remote frame carries no data whatever    *)
(* its dlc, any other frame carries dlc bytes.                             *)
Msgs ==
    {[arbitration_id |-> 291, is_extended_id |-> e, is_remote_frame |-> r,
      is_error_frame |-> FALSE, is_fd |-> FALSE, bitrate_switch |-> FALSE,
      error_state_indicator |-> FALSE, dlc |-> n,
      data |-> IF r THEN <<>> ELSE [i \in 1..n |-> i]] :
        e \in BOOLEAN, r \in BOOLEAN, n \in 0..MaxDlc}

(* msgType as built at the top of send *)
MsgType(msg) ==
    LET t0 == IF msg.is_extended_id THEN PCAN_MESSAGE_EXTENDED ELSE PCAN_MESSAGE_STANDARD
        t1 == IF msg.is_remote_frame THEN BitOr(t0, PCAN_MESSAGE_RTR) ELSE t0
        t2 == IF msg.is_error_frame THEN BitOr(t1, PCAN_MESSAGE_ERRFRAME) ELSE t1
        t3 == IF msg.is_fd THEN BitOr(t2, PCAN_MESSAGE_FD) ELSE t2
        t4 == IF msg.bitrate_switch THEN BitOr(t3, PCAN_MESSAGE_BRS) ELSE t3
    IN IF msg.error_state_indicator THEN BitOr(t4, PCAN_MESSAGE_ESI) ELSE t4

(* The data buffer of a fresh record (size bytes, zeroed) after the copy   *)
(* loop has stored the first n bytes of data.                              *)
Copied(data, n, size) == [i \in 1..size |-> IF i <= n THEN data[i] ELSE 0]

(* How far send gets before the device write: "write" when it reaches it,  *)
(* else the exception raised on the way.  In the classic branch a remote   *)
(* frame evaluates msgType.value on the integer msgType; a copy loop that  *)
(* runs past the end of msg.data raises IndexError.                        *)
SendPath(isFd, msg) ==
    IF isFd
    THEN IF msg.dlc > Len(msg.data) THEN "IndexError" ELSE "write"
    ELSE IF msg.is_remote_frame THEN "AttributeError"
    ELSE IF msg.dlc > Len(msg.data) THEN "IndexError"
    ELSE "write"

(* The record handed to WriteFD or Write. *)
CANMsg(isFd, msg) ==
    IF isFd
    THEN [ID |-> msg.arbitration_id, DLC |-> len2dlc(msg.dlc),
          MSGTYPE |-> MsgType(msg), DATA |-> Copied(msg.data, msg.dlc, 64)]
    ELSE [ID |-> msg.arbitration_id, LEN |-> msg.dlc,
          MSGTYPE |-> MsgType(msg), DATA |-> Copied(msg.data, msg.dlc, 8)]

WriteCall(isFd, msg, res) ==
    Call(IF isFd THEN "WriteFD" ELSE "Write", "", "", <<CANMsg(isFd, msg)>>, res)

(* An operation of the open adapter other than receive and the state       *)
(* setter: it touches neither the adapter's fields nor a running call.     *)
(* The clock is read by _recv_internal alone and is not kept outside it.   *)
AdapterOp(op) ==
    /\ adapter = "open"
    /\ pc = "idle"
    /\ lastOp' = op
    /\ now' = 0
    /\ UNCHANGED <<HAS_EVENTS, devInit, devListenOnly, evRegistered, evSignalled,
                   arrived>>
    /\ UNCHANGED conv
    /\ UNCHANGED adapterVars
    /\ UNCHANGED callVars
    /\ UNCHANGED histVars
    /\ UNCHANGED stateVars

Send(msg) ==
    /\ UNCHANGED rxq
    /\ IF SendPath(fd, msg) # "write"
       THEN AdapterOp(Op("send", [NoArgs EXCEPT !.msg = msg], <<>>,
                         Outcome(SendPath(fd, msg), "", NoValue)))
       ELSE \E res \in DeviceResults :
            AdapterOp(Op("send", [NoArgs EXCEPT !.msg = msg],
                         <<WriteCall(fd, msg, res)>>,
                         Outcome(IF res # PCAN_ERROR_OK THEN "PcanError" ELSE "return",
                                 "", NoValue)))

-----------------------------------------------------------------------------
(* status, status_is_ok, reset, flash *)

Status(st) ==
    /\ UNCHANGED rxq
    /\ AdapterOp(Op("status", NoArgs, <<Call("GetStatus", "", "", None, st)>>,
                    Outcome("return", "", [NoValue EXCEPT !.status = st])))

StatusIsOk(st) ==
    /\ UNCHANGED rxq
    /\ AdapterOp(Op("status_is_ok", NoArgs, <<Call("GetStatus", "", "", None, st)>>,
                    Outcome("return", "", [NoValue EXCEPT !.ok = (st = PCAN_ERROR_OK)])))

(* A reset that succeeds empties the device's queues. *)
Reset(res) ==
    /\ rxq' = IF res = PCAN_ERROR_OK THEN <<>> ELSE rxq
    /\ AdapterOp(Op("reset", NoArgs, <<Call("Reset", "", "", None, res)>>,
                    Outcome("return", "", [NoValue EXCEPT !.ok = (res = PCAN_ERROR_OK)])))

(* The parameter flash sets. *)
FlashParamListenOnly == "PCAN_LISTEN_ONLY"

FlashParam == "PCAN_CHANNEL_IDENTIFYING"

Flash(flash) ==
    /\ UNCHANGED rxq
    /\ AdapterOp(Op("flash", [NoArgs EXCEPT !.flash = flash],
                    <<Call("SetValue", FlashParam, IF flash THEN "True" ELSE "False",
                           None, 0)>>,
                    Outcome("return", "", NoValue)))

-----------------------------------------------------------------------------
Timeouts == {None} \cup {<<t>> : t \in 0..MaxTimeout}

SleepTicks == TicksPerMs..(TicksPerMs + SleepJitter)

Next ==
    \/ \E s \in BusStates, f, t, d, l \in BOOLEAN : Open(s, f, t, d, l)
    \/ \E s \in BusStates, r \in DeviceResults : SetState(s, r)
    \/ Shutdown
    \/ \E t \in Timeouts : RecvCall(t)
    \/ \E st \in ReadStatuses(rxq), d \in SleepTicks : RecvRead(st, d)
    \/ WaitReturn
    \/ SleepReturn
    \/ \E msg \in Msgs : Send(msg)
    \/ \E st \in DeviceResults : Status(st)
    \/ \E st \in DeviceResults : StatusIsOk(st)
    \/ \E res \in DeviceResults : Reset(res)
    \/ \E flash \in BOOLEAN : Flash(flash)
    \/ Arrive
    \/ DeviceSetEvent
    \/ Tick

Spec == Init /\ [][Next]_vars

(* The operations that start, run or feed a _recv_internal call: the other *)
(* operations run only between two calls and change none of its variables. *)
RecvNext ==
    \/ \E s \in BusStates, f, t, d, l \in BOOLEAN : Open(s, f, t, d, l)
    \/ Shutdown
    \/ \E t \in Timeouts : RecvCall(t)
    \/ \E st \in ReadStatuses(rxq), d \in SleepTicks : RecvRead(st, d)
    \/ WaitReturn
    \/ SleepReturn
    \/ \E res \in DeviceResults : Reset(res)
    \/ Arrive
    \/ DeviceSetEvent
    \/ Tick

(* A running _recv_internal call is the one thread of the adapter: it      *)
(* takes its next step, and time passes while it is blocked.               *)
FairSpec ==
    /\ Init
    /\ [][RecvNext]_vars
    /\ WF_vars(\E st \in ReadStatuses(rxq), d \in SleepTicks : RecvRead(st, d))
    /\ WF_vars(WaitReturn)
    /\ WF_vars(SleepReturn)
    /\ WF_vars(Tick)

-----------------------------------------------------------------------------
(* The conversions of the adapter, each applied on its own to one input:   *)
(* the classic bit rate of __init__, _get_formatted_error, and the record  *)
(* built by send decoded again by _recv_internal.                          *)

(* Values of the PCAN_BAUD_* constants of the device library. *)
PCAN_BAUD_1M == 20
PCAN_BAUD_800K == 22
PCAN_BAUD_500K == 28
PCAN_BAUD_250K == 284
PCAN_BAUD_125K == 796
PCAN_BAUD_100K == 17199
PCAN_BAUD_95K == 49998
PCAN_BAUD_83K == 34091
PCAN_BAUD_50K == 18223
PCAN_BAUD_47K == 5140
PCAN_BAUD_33K == 35631
PCAN_BAUD_20K == 21295
PCAN_BAUD_10K == 26415
PCAN_BAUD_5K == 32639

pcan_bitrate_objs ==
    (1000000 :> PCAN_BAUD_1M) @@ (800000 :> PCAN_BAUD_800K)
    @@ (500000 :> PCAN_BAUD_500K) @@ (250000 :> PCAN_BAUD_250K)
    @@ (125000 :> PCAN_BAUD_125K) @@ (100000 :> PCAN_BAUD_100K)
    @@ (95000 :> PCAN_BAUD_95K) @@ (83000 :> PCAN_BAUD_83K)
    @@ (50000 :> PCAN_BAUD_50K) @@ (47000 :> PCAN_BAUD_47K)
    @@ (33000 :> PCAN_BAUD_33K) @@ (20000 :> PCAN_BAUD_20K)
    @@ (10000 :> PCAN_BAUD_10K) @@ (5000 :> PCAN_BAUD_5K)

(* TPCANBaudrate is c_ushort: the value is kept modulo 2^16. *)
TPCANBaudrate(v) == v % 65536

(* The classic branch of __init__: the value handed to Initialize.  timing *)
(* is None or <<t>> with the registers t.btr0 and t.btr1.                  *)
pcan_bitrateTableFirst(timing, bitrate) ==
    IF bitrate \in DOMAIN pcan_bitrate_objs THEN pcan_bitrate_objs[bitrate]
    ELSE IF timing # None
    THEN TPCANBaudrate(BitOr(timing[1].btr0 * 256, timing[1].btr1))
    ELSE PCAN_BAUD_500K

pcan_bitrate(timing, bitrate) ==
    IF timing # None
    THEN TPCANBaudrate(BitOr(timing[1].btr0 * 256, timing[1].btr1))
    ELSE IF bitrate \in DOMAIN pcan_bitrate_objs THEN pcan_bitrate_objs[bitrate]
    ELSE PCAN_BAUD_500K

(* The classic branch up to its device call, which it always reaches. *)
ClassicInit(timing, bitrate) ==
    /\ conv = NoConv
    /\ conv' = [fn |-> "Initialize",
                arg |-> [timing |-> timing, bitrate |-> bitrate],
                out |-> Call("Initialize", "pcan_bitrate",
                             pcan_bitrate(timing, bitrate), None, 0)]
    /\ UNCHANGED busVars

(* Python's ~n, and n & m and n ^ m for n >= 0: of a negative m only the   *)
(* bits below the highest bit of n count.                                  *)
PyNot(n) == 0 - n - 1

RECURSIVE Pow2Above(_)
Pow2Above(n) == IF n = 0 THEN 1 ELSE 2 * Pow2Above(n \div 2)

PyAnd(n, m) == IF m >= 0 THEN BitAnd(n, m) ELSE BitAnd(n, m % Pow2Above(n))

PyXor(n, m) == n + m - 2 * BitAnd(n, m)

(* The generator bits(n): the values it yields, in order. *)
RECURSIVE bits(_)
bits(n) ==
    IF n = 0 THEN <<>>
    ELSE LET mask == PyNot(n) + 1
             masked_value == PyAnd(n, mask)
         IN <<masked_value>> \o bits(PyXor(n, masked_value))

(* "{0:X}".format(v): the upper-case hexadecimal digits of v. *)
HexDigits == <<"0", "1", "2", "3", "4", "5", "6", "7",
               "8", "9", "A", "B", "C", "D", "E", "F">>

RECURSIVE Hex(_)
Hex(v) ==
    IF v < 16 THEN <<HexDigits[v + 1]>>
    ELSE Hex(v \div 16) \o <<HexDigits[(v % 16) + 1]>>

(* The text GetErrorText gives for a code it can translate. *)
DeviceText(code) == <<"GetErrorText", code>>

(* The line put in place of a text that could not be retrieved. *)
Placeholder(v) ==
    <<"An error occurred. Error-code's text (", Hex(v), "h) couldn't be retrieved">>

(* _get_formatted_error(error) with a device that translates the codes in  *)
(* known: the codes GetErrorText was called with, in order, and the lines  *)
(* of the text returned ("\n".join(strings), or the one direct text).      *)
_get_formatted_errorAlwaysBits(error, known) ==
    [lookups |-> <<error>> \o bits(error),
     lines |-> [i \in 1..Len(bits(error)) |->
                   IF bits(error)[i] \in known
                   THEN DeviceText(bits(error)[i])
                   ELSE Placeholder(error)]]

_get_formatted_error(error, known) ==
    IF error \in known
    THEN [lookups |-> <<error>>, lines |-> <<DeviceText(error)>>]
    ELSE [lookups |-> <<error>> \o bits(error),
          lines |-> [i \in 1..Len(bits(error)) |->
                        IF bits(error)[i] \in known
                        THEN DeviceText(bits(error)[i])
                        ELSE Placeholder(error)]]

FormatError(error, known) ==
    /\ conv = NoConv
    /\ conv' = [fn |-> "_get_formatted_error",
                arg |-> [error |-> error, known |-> known],
                out |-> _get_formatted_error(error, known)]
    /\ UNCHANGED busVars

(* send followed by _recv_internal on a device that hands the record       *)
(* written back unchanged: the exception send raised before its write, or  *)
(* the record written and the Message decoded from it.                     *)
Loopback(isFd, msg) ==
    /\ conv = NoConv
    /\ conv' = [fn |-> "loopback",
                arg |-> [fd |-> isFd, msg |-> msg],
                out |-> IF SendPath(isFd, msg) # "write"
                        THEN [kind |-> SendPath(isFd, msg), rec |-> None, msg |-> None]
                        ELSE [kind |-> "return", rec |-> <<CANMsg(isFd, msg)>>,
                              msg |-> <<Decode(isFd, CANMsg(isFd, msg))>>]]
    /\ UNCHANGED busVars

(* Inputs of the conversions *)
MaxBtr == 2
MaxErrorBits == 4

Timings ==
    {None} \cup {<<[btr0 |-> b0, btr1 |-> b1]>> :
                    b0 \in 0..MaxBtr \cup {255}, b1 \in {0, 28, 255}}

Bitrates == DOMAIN pcan_bitrate_objs \cup {0, 1, 28, 123456}

ErrorCodes ==
    0..(2 ^ MaxErrorBits - 1)
    \cup {PCAN_ERROR_QRCVEMPTY + PCAN_ERROR_BUSHEAVY, 262144 + PCAN_ERROR_BUSLIGHT}

(* the codes the device is asked about when decoding error *)
Asked(error) == {error} \cup {bits(error)[i] : i \in 1..Len(bits(error))}

(* Classic frames of 0..8 bytes with every combination of the extended,    *)
(* remote and error flags; FD data frames of 0..64 bytes.  A remote frame  *)
(* carries no data, any other frame dlc bytes.                             *)
ClassicMsgs ==
    {[arbitration_id |-> 291, is_extended_id |-> e, is_remote_frame |-> r,
      is_error_frame |-> x, is_fd |-> FALSE, bitrate_switch |-> FALSE,
      error_state_indicator |-> FALSE, dlc |-> n,
      data |-> IF r THEN <<>> ELSE [i \in 1..n |-> i]] :
        e \in BOOLEAN, r \in BOOLEAN, x \in BOOLEAN, n \in 0..8}

FdMsgs ==
    {[arbitration_id |-> 291, is_extended_id |-> e, is_remote_frame |-> FALSE,
      is_error_frame |-> FALSE, is_fd |-> TRUE, bitrate_switch |-> b,
      error_state_indicator |-> FALSE, dlc |-> n,
      data |-> [i \in 1..n |-> i]] :
        e \in BOOLEAN, b \in BOOLEAN, n \in 0..64}

ConvNext ==
    \/ \E timing \in Timings, bitrate \in Bitrates : ClassicInit(timing, bitrate)
    \/ \E error \in ErrorCodes : \E known \in SUBSET Asked(error) :
          FormatError(error, known)
    \/ \E msg \in ClassicMsgs : Loopback(FALSE, msg)
    \/ \E msg \in FdMsgs : Loopback(TRUE, msg)

ConvSpec == Init /\ [][ConvNext]_vars

-----------------------------------------------------------------------------
(* Properties *)

BusWarnBits == PCAN_ERROR_BUSLIGHT + PCAN_ERROR_BUSHEAVY

Empty == [NoValue EXCEPT !.msg = None, !.more = FALSE]

RecvTimeout == lastOp.arg.timeout

(* the last operation is a receive call that has returned or raised *)
RecvDone == lastOp.op = "receive" /\ lastOp.outcome.kind # "pending"

(* the status of the last device read of the receive call *)
LastStatus == lastOp.calls[1].status

(* C1: a frame that becomes available before the deadline of a             *)
(* receive(timeout) call is returned by that call.  Stated as what it      *)
(* forbids: no call has returned the empty result on its timeout path      *)
(* while, before its deadline (now < timeout), a frame is in the queue.    *)
C1_FrameBeforeDeadlineReturned ==
    (RecvDone /\ lastOp.outcome.via = "timeout" /\ RecvTimeout # None)
        => ~(rxq # <<>> /\ now < RecvTimeout[1])

(* C2: poll strategy.  A call whose last read reported queue-empty has     *)
(* returned the empty result, did not raise, had a timeout, and returned   *)
(* no earlier than its deadline; and a call with a timeout terminates.     *)
C2_Safety ==
    (~HAS_EVENTS /\ RecvDone /\ LastStatus = PCAN_ERROR_QRCVEMPTY)
        => /\ lastOp.outcome.kind = "return"
           /\ lastOp.outcome.value = Empty
           /\ RecvTimeout # None
           /\ now >= RecvTimeout[1]

C2_PollTimeout ==
    /\ []C2_Safety
    /\ (~HAS_EVENTS /\ pc # "idle" /\ timeout # None) ~> (pc = "idle")

C2_Witness ==
    /\ ~HAS_EVENTS
    /\ RecvDone
    /\ lastOp.outcome.via = "timeout"
    /\ RecvTimeout = <<MaxTimeout>>
    /\ now >= MaxTimeout

(* C3: a receive(timeout=T) call blocks for at most T plus one poll step,  *)
(* and a wait never reaches past the deadline: it is given the time that   *)
(* remains, not T again.                                                   *)
C3_TimeoutAccounting ==
    (lastOp.op = "receive" /\ RecvTimeout # None)
        => /\ now <= RecvTimeout[1] + TicksPerMs + SleepJitter
           /\ (pc = "wait" => now + left[1] <= RecvTimeout[1])

(* C4: a read status with a bus-light or bus-heavy bit ends receive with   *)
(* the empty result; any other status that is neither success nor          *)
(* queue-empty raises PcanError; queue-empty and a wait timeout never      *)
(* raise.                                                                  *)
C4_StatusHandling ==
    RecvDone =>
        /\ (BitAnd(LastStatus, BusWarnBits) # 0
              => (lastOp.outcome.kind = "return" /\ lastOp.outcome.value = Empty))
        /\ ((LastStatus \notin {PCAN_ERROR_OK, PCAN_ERROR_QRCVEMPTY}
                /\ BitAnd(LastStatus, BusWarnBits) = 0)
              => lastOp.outcome.kind = "PcanError")
        /\ (LastStatus = PCAN_ERROR_QRCVEMPTY => lastOp.outcome.kind = "return")
        /\ (lastOp.outcome.via = "timeout" => lastOp.outcome.kind = "return")

C4_Witness ==
    /\ RecvDone
    /\ LastStatus = PCAN_ERROR_QRCVEMPTY + PCAN_ERROR_BUSHEAVY
    /\ lastOp.outcome.kind = "return"
    /\ rxq # <<>>

(* C5: every return of receive carries False; the frames returned are      *)
(* exactly the frames the device handed out with success, in that order,   *)
(* at every moment: also while a call is still running, so a call that has *)
(* read a frame reads no more.                                             *)
C5_SingleFrame ==
    /\ (RecvDone /\ lastOp.outcome.kind = "return" => lastOp.outcome.value.more = FALSE)
    /\ [i \in 1..Len(delivered) |-> delivered[i].arbitration_id]
          = [i \in 1..Len(readLog) |-> readLog[i].ID]

C5_Witness ==
    /\ RecvDone
    /\ lastOp.outcome.via = "frame"
    /\ lastOp.outcome.value.more = FALSE
    /\ Len(delivered) = 2
    /\ delivered[1].arbitration_id = 1
    /\ delivered[2].arbitration_id = 2

(* C6: every send call issues exactly one device write (WriteFD in FD      *)
(* mode, Write otherwise) and raises PcanError exactly when that write     *)
(* reports a status other than success.                                    *)
C6_SendSingleAttempt ==
    lastOp.op = "send" =>
        /\ Len(lastOp.calls) = 1
        /\ lastOp.calls[1].fn = (IF fd THEN "WriteFD" ELSE "Write")
        /\ lastOp.outcome.kind \in {"return", "PcanError"}
        /\ (lastOp.outcome.kind = "PcanError" <=> lastOp.calls[1].status # PCAN_ERROR_OK)

(* C7: while the adapter is open the device's listen-only flag is on       *)
(* exactly when the logical state is Passive, and the logical state is     *)
(* Active or Passive.                                                      *)
C7_ListenOnlySynchronized ==
    adapter = "open" =>
        /\ _state \in {"ACTIVE", "PASSIVE"}
        /\ (devListenOnly <=> _state = "PASSIVE")

ParamFor(s) == IF s = "PASSIVE" THEN "PCAN_PARAMETER_ON" ELSE "PCAN_PARAMETER_OFF"

(* C8: a state-set with Active or Passive leaves that value as the logical *)
(* state and issues exactly one listen-only SetValue, on for Passive and   *)
(* off for Active; the listen-only value issued last is that of the state  *)
(* requested last.                                                         *)
C8_StateSet ==
    /\ (lastOp.op = "set_state" /\ lastOp.arg.state \in {"ACTIVE", "PASSIVE"}
          => /\ _state = lastOp.arg.state
             /\ Len(lastOp.calls) = 1
             /\ lastOp.calls[1].fn = "SetValue"
             /\ lastOp.calls[1].param = "PCAN_LISTEN_ONLY"
             /\ lastOp.calls[1].value = ParamFor(lastOp.arg.state))
    /\ (adapter = "open" /\ lastRequested \in {"ACTIVE", "PASSIVE"}
          => /\ _state = lastRequested
             /\ lastListenOnly = <<ParamFor(lastRequested)>>)

C8_Witness ==
    /\ lastOp.op = "set_state"
    /\ lastOp.arg.state = "ACTIVE"
    /\ lastOp.prevState = "PASSIVE"
    /\ _state = "ACTIVE"
    /\ lastListenOnly = <<"PCAN_PARAMETER_OFF">>

(* C9: receive, send, status, status_is_ok, reset and flash leave the      *)
(* logical state as it was when they were called and issue no listen-only  *)
(* SetValue, whatever the device returned.                                 *)
C9_StateOnlyBySetter ==
    lastOp.op \in {"receive", "send", "status", "status_is_ok", "reset", "flash"}
        => /\ _state = lastOp.prevState
           /\ \A i \in 1..Len(lastOp.calls) :
                 ~(/\ lastOp.calls[i].fn = "SetValue"
                   /\ lastOp.calls[i].param = "PCAN_LISTEN_ONLY")

C9_Witness ==
    /\ RecvDone
    /\ lastOp.outcome.kind = "PcanError"
    /\ LastStatus = PCAN_ERROR_BUSOFF
    /\ _state = "ACTIVE"
    /\ lastOp.prevState = "ACTIVE"

(* C10: open with fd=True, without both timing and data_timing and without *)
(* the legacy nom_tseg1 keyword, raises ArgumentError and has called       *)
(* neither InitializeFD nor Initialize.                                    *)
C10_FdTimingMissing ==
    (/\ lastOp.op = "open"
     /\ lastOp.arg.fd
     /\ ~(lastOp.arg.timing /\ lastOp.arg.data_timing)
     /\ ~lastOp.arg.legacy)
        => /\ lastOp.outcome.kind = "ArgumentError"
           /\ \A i \in 1..Len(lastOp.calls) :
                 lastOp.calls[i].fn \notin {"Initialize", "InitializeFD"}

C10_Witness ==
    /\ lastOp.op = "open"
    /\ lastOp.arg.fd
    /\ lastOp.arg.timing
    /\ ~lastOp.arg.data_timing
    /\ ~lastOp.arg.legacy
    /\ lastOp.arg.state = "PASSIVE"
    /\ lastOp.outcome.kind = "ArgumentError"
    /\ Len(lastOp.calls) = 1

(* the positions in the device calls of the last operation of the          *)
(* initialisation calls and of the registrations of the receive event      *)
InitCallsOf(calls) ==
    {i \in 1..Len(calls) : calls[i].fn \in {"Initialize", "InitializeFD"}}

EventCallsOf(calls) ==
    {i \in 1..Len(calls) : calls[i].param = "PCAN_RECEIVE_EVENT"}

(* C11 as stated: an open with fd=True registers no wait object with the   *)
(* device, even if the event primitive is available.                       *)
C11_EventOnlyClassic ==
    /\ (lastOp.op = "open" /\ lastOp.arg.fd => EventCallsOf(lastOp.calls) = {})
    /\ (adapter = "open" /\ fd => ~evRegistered)

(* C11 as amended: an open registers the wait object (one SetValue of the  *)
(* receive-event parameter, issued last) exactly when the event primitive  *)
(* is available and the initialisation call succeeded, with fd=True as in  *)
(* classic mode; an open adapter has it registered exactly when the        *)
(* primitive is available.                                                 *)
C11_EventWheneverAvailable ==
    /\ lastOp.op = "open" =>
          /\ (EventCallsOf(lastOp.calls) # {}
                <=> /\ HAS_EVENTS
                    /\ \E i \in InitCallsOf(lastOp.calls) :
                          lastOp.calls[i].status = PCAN_ERROR_OK)
          /\ EventCallsOf(lastOp.calls) \subseteq {Len(lastOp.calls)}
    /\ (adapter = "open" => (evRegistered <=> HAS_EVENTS))

C11_Witness ==
    /\ lastOp.op = "open"
    /\ lastOp.arg.fd
    /\ HAS_EVENTS
    /\ lastOp.outcome.kind = "return"
    /\ adapter = "open"
    /\ fd
    /\ evRegistered
    /\ Len(lastOp.calls) = 3
    /\ lastOp.calls[2].fn = "InitializeFD"
    /\ lastOp.calls[3] = EventCall(PCAN_ERROR_OK)

(* C12: an open issues at most one initialisation call, Initialize in      *)
(* classic mode and InitializeFD in FD mode; when that call returns a      *)
(* status other than success it is the last device call of the open, which *)
(* raises PcanError, registers no wait object and leaves no adapter.       *)
C12_InitFailureRaises ==
    lastOp.op = "open" =>
        /\ Cardinality(InitCallsOf(lastOp.calls)) <= 1
        /\ \A i \in InitCallsOf(lastOp.calls) :
              /\ lastOp.calls[i].fn =
                    (IF lastOp.arg.fd THEN "InitializeFD" ELSE "Initialize")
              /\ (lastOp.calls[i].status # PCAN_ERROR_OK
                    => /\ lastOp.outcome.kind = "PcanError"
                       /\ i = Len(lastOp.calls)
                       /\ EventCallsOf(lastOp.calls) = {}
                       /\ adapter = "none"
                       /\ ~evRegistered)

C12_Witness ==
    /\ lastOp.op = "open"
    /\ HAS_EVENTS
    /\ ~lastOp.arg.fd
    /\ Len(lastOp.calls) = 2
    /\ lastOp.calls[2].fn = "Initialize"
    /\ lastOp.calls[2].status = PCAN_ERROR_BUSOFF
    /\ lastOp.outcome.kind = "PcanError"
    /\ adapter = "none"

(* C16: a send of a remote frame in classic mode issues one Write of a     *)
(* record with the RTR bit in MSGTYPE, LEN equal to the frame's dlc and a  *)
(* data buffer no byte was copied into, and fails only when the write      *)
(* reports a status other than success.                                    *)
C16_ClassicRemoteFrame ==
    (lastOp.op = "send" /\ ~fd /\ lastOp.arg.msg.is_remote_frame)
        => /\ Len(lastOp.calls) = 1
           /\ lastOp.calls[1].fn = "Write"
           /\ BitAnd(lastOp.calls[1].rec[1].MSGTYPE, PCAN_MESSAGE_RTR) = PCAN_MESSAGE_RTR
           /\ lastOp.calls[1].rec[1].LEN = lastOp.arg.msg.dlc
           /\ lastOp.calls[1].rec[1].DATA = [i \in 1..8 |-> 0]
           /\ lastOp.outcome.kind \in {"return", "PcanError"}
           /\ (lastOp.outcome.kind = "PcanError"
                 <=> lastOp.calls[1].status # PCAN_ERROR_OK)

(* C19: an open that raised has not left the device channel initialised.   *)
C19_FailedOpenReleasesChannel ==
    (lastOp.op = "open" /\ lastOp.outcome.kind # "return") => ~devInit

(* C20: an open that raised ArgumentError has made no call to the device.  *)
C20_ConfigErrorNoDeviceCall ==
    (lastOp.op = "open" /\ lastOp.outcome.kind = "ArgumentError")
        => lastOp.calls = <<>>

(* C13: the value handed to Initialize is btr0 << 8 | btr1 when a timing   *)
(* is given, whatever the bitrate; without a timing it is the table value  *)
(* of a bitrate of the table (PCAN_BAUD_500K for 500000) and               *)
(* PCAN_BAUD_500K for any other bitrate, and Initialize is reached.        *)
C13_ClassicTimingSelection ==
    conv.fn = "Initialize" =>
        /\ conv.out.fn = "Initialize"
        /\ (conv.arg.timing # None
              => conv.out.value
                    = conv.arg.timing[1].btr0 * 256 + conv.arg.timing[1].btr1)
        /\ (conv.arg.timing = None /\ conv.arg.bitrate \in DOMAIN pcan_bitrate_objs
              => conv.out.value = pcan_bitrate_objs[conv.arg.bitrate])
        /\ (conv.arg.timing = None /\ conv.arg.bitrate = 500000
              => conv.out.value = PCAN_BAUD_500K)
        /\ (conv.arg.timing = None /\ conv.arg.bitrate \notin DOMAIN pcan_bitrate_objs
              => conv.out.value = PCAN_BAUD_500K)

C13_Witness ==
    /\ conv.fn = "Initialize"
    /\ conv.arg.timing = <<[btr0 |-> 1, btr1 |-> 255]>>
    /\ conv.arg.bitrate = 250000
    /\ conv.out.value = 511

(* the set bits of a code, as values *)
SetBits(code) == {2 ^ k : k \in {j \in 0..20 : (code \div (2 ^ j)) % 2 = 1}}

(* the values bits() yielded: the per-bit lookups after the first lookup *)
Yielded == Tail(conv.out.lookups)

(* C14: for a code the device does not translate directly, the bits        *)
(* yielded are the set bits of the code, each once, in ascending order,    *)
(* the text has one line per bit in that order, and the line of a bit the  *)
(* device translates is that bit's text; for a code the device translates  *)
(* the text is the device's text and no other lookup is made.              *)
C14_ErrorDecomposition ==
    conv.fn = "_get_formatted_error" =>
        /\ conv.out.lookups[1] = conv.arg.error
        /\ (conv.arg.error \in conv.arg.known
              => /\ conv.out.lookups = <<conv.arg.error>>
                 /\ conv.out.lines = <<DeviceText(conv.arg.error)>>)
        /\ (conv.arg.error \notin conv.arg.known
              => /\ {Yielded[i] : i \in 1..Len(Yielded)} = SetBits(conv.arg.error)
                 /\ Len(Yielded) = Cardinality(SetBits(conv.arg.error))
                 /\ \A i \in 1..(Len(Yielded) - 1) : Yielded[i] < Yielded[i + 1]
                 /\ Len(conv.out.lines) = Len(Yielded)
                 /\ \A i \in 1..Len(Yielded) :
                       Yielded[i] \in conv.arg.known
                          => conv.out.lines[i] = DeviceText(Yielded[i]))

C14_Witness ==
    /\ conv.fn = "_get_formatted_error"
    /\ conv.arg.error = PCAN_ERROR_QRCVEMPTY + PCAN_ERROR_BUSHEAVY
    /\ conv.arg.known = {PCAN_ERROR_BUSHEAVY, PCAN_ERROR_QRCVEMPTY}
    /\ conv.out.lookups = <<40, 8, 32>>
    /\ conv.out.lines = <<DeviceText(8), DeviceText(32)>>

(* C15: the line of a bit whose text the device does not give is the       *)
(* placeholder with the hexadecimal value of that bit.                     *)
C15_PlaceholderNamesBit ==
    (conv.fn = "_get_formatted_error" /\ conv.arg.error \notin conv.arg.known)
        => \A i \in 1..Len(conv.out.lines) :
              Yielded[i] \notin conv.arg.known
                 => /\ conv.out.lines[i][2] = Hex(Yielded[i])
                    /\ conv.out.lines[i] = Placeholder(Yielded[i])

(* C17: a classic frame of 0..8 bytes, with any of the flags extended,     *)
(* remote and error, is written by send and comes back from receive with   *)
(* the same id, length, payload and flags.                                 *)
C17_ClassicRoundTrip ==
    (conv.fn = "loopback" /\ ~conv.arg.fd)
        => /\ conv.out.kind = "return"
           /\ conv.out.msg = <<conv.arg.msg>>

(* the lengths an FD frame can have, the smallest of them that holds n     *)
(* bytes, and the DLC code of such a length                                *)
CanonicalLengths == (0..8) \cup {12, 16, 20, 24, 32, 48, 64}

NextCanonical(n) ==
    CHOOSE c \in CanonicalLengths :
        c >= n /\ \A d \in CanonicalLengths : d >= n => c <= d

DlcCode(c) == Cardinality({d \in CanonicalLengths : d < c})

(* C18: an FD frame of a canonical length comes back with its length and   *)
(* payload; for any other length of 0..64 the DLC written is the code of   *)
(* the next canonical length, every payload byte is in the buffer written  *)
(* and the length decoded is that next canonical length.                   *)
C18_FdRoundTrip ==
    (conv.fn = "loopback" /\ conv.arg.fd)
        => /\ conv.out.kind = "return"
           /\ (conv.arg.msg.dlc \in CanonicalLengths
                 => /\ conv.out.msg[1].dlc = conv.arg.msg.dlc
                    /\ conv.out.msg[1].data = conv.arg.msg.data)
           /\ (conv.arg.msg.dlc \notin CanonicalLengths
                 => /\ conv.out.rec[1].DLC = DlcCode(NextCanonical(conv.arg.msg.dlc))
                    /\ SubSeq(conv.out.rec[1].DATA, 1, conv.arg.msg.dlc)
                          = conv.arg.msg.data
                    /\ conv.out.msg[1].dlc = NextCanonical(conv.arg.msg.dlc)
                    /\ conv.out.msg[1].dlc > conv.arg.msg.dlc)

C18_Witness ==
    /\ conv.fn = "loopback"
    /\ conv.arg.fd
    /\ conv.arg.msg.dlc = 33
    /\ conv.out.rec[1].DLC = 14
    /\ conv.out.msg[1].dlc = 48
    /\ SubSeq(conv.out.msg[1].data, 1, 33) = [i \in 1..33 |-> i]
    /\ conv.out.msg[1].data[34] = 0
====
